---------------------------- MODULE Spec2Model ----------------------------
(***************************************************************************)
(* A model of go-yarnlock: the tokenizer, the recursive-descent parser,    *)
(* ParseLockFileData, LockFile.RootElement, and the scalar formatter and   *)
(* encoder that write a LockFile back to text.                             *)
(*                                                                         *)
(* A Go string is a sequence of one-character strings; the Go index i of   *)
(* a string s is s[i + 1] here.                                            *)
(***************************************************************************)
EXTENDS Integers, Sequences, FiniteSets, TLC

VARIABLES
    pc,     \* the step the program is at
    data,   \* the input of the run: the text handed to tokenize,
            \* ParseLockFileData or maybeWrap
    t,      \* the _Tokenizer
    p,      \* the _Parser
    tree,   \* what parser.parse(0) returned
    lf,     \* the LockFile: the result of ParseLockFileData, the receiver of
            \* Encode and RootElement
    err,    \* the error ParseLockFileData returns
    out,    \* the text written by Encode or returned by maybeWrap
    round,  \* how many times the text has been parsed and encoded
    keys,   \* RootElement: the local map keys
    rs      \* RootElement: the result slice

vars == <<pc, data, t, p, tree, lf, err, out, round, keys, rs>>

----------------------------------------------------------------------------
(* Characters *)

LF == "\n"
CR == "\r"
TAB == "\t"
SP == " "
DQ == "\""
BSL == "\\"
BS == "<BS>"
FF == "\f"
NonAscii == "<U+>"

LowerCase == <<"a","b","c","d","e","f","g","h","i","j","k","l","m",
               "n","o","p","q","r","s","t","u","v","w","x","y","z">>
UpperCase == <<"A","B","C","D","E","F","G","H","I","J","K","L","M",
               "N","O","P","Q","R","S","T","U","V","W","X","Y","Z">>
DigitChars == <<"0","1","2","3","4","5","6","7","8","9">>

\* The printable ASCII characters in code order, from 32 (space) to 126.
Printable ==
    <<" ", "!", "\"", "#", "$", "%", "&", "'", "(", ")", "*", "+", ",", "-",
      ".", "/">> \o DigitChars \o <<":", ";", "<", "=", ">", "?", "@">>
    \o UpperCase \o <<"[", "\\", "]", "^", "_", "<BT>">> \o LowerCase
    \o <<"{", "|", "}", "~">>

Range(s) == {s[i] : i \in DOMAIN s}

Letters == Range(LowerCase) \cup Range(UpperCase)
Digits == Range(DigitChars)

\* The byte value of a character.
Ord(c) ==
    CASE c = BS -> 8
      [] c = TAB -> 9
      [] c = LF -> 10
      [] c = FF -> 12
      [] c = CR -> 13
      [] c \in Range(Printable) ->
            31 + (CHOOSE i \in DOMAIN Printable : Printable[i] = c)
      [] OTHER -> 128

Chr(n) ==
    CASE n = 8 -> BS
      [] n = 9 -> TAB
      [] n = 10 -> LF
      [] n = 12 -> FF
      [] n = 13 -> CR
      [] n >= 32 /\ n <= 126 -> Printable[n - 31]
      [] OTHER -> NonAscii

DigitVal(c) == (CHOOSE i \in DOMAIN DigitChars : DigitChars[i] = c) - 1

----------------------------------------------------------------------------
(* Go string primitives *)

\* s[from:] and s[:to] with the 0-based bounds.
SliceFrom(s, from) == SubSeq(s, from + 1, Len(s))
SliceTo(s, to) == SubSeq(s, 1, to)

HasPrefix(s, prefix) ==
    Len(s) >= Len(prefix) /\ SubSeq(s, 1, Len(prefix)) = prefix

HasSuffix(s, suffix) ==
    Len(s) >= Len(suffix)
    /\ SubSeq(s, Len(s) - Len(suffix) + 1, Len(s)) = suffix

\* strings.Index(s, "\n"): the 0-based index of the first LF, or -1.
IndexLF(s) ==
    IF \E i \in DOMAIN s : s[i] = LF
    THEN (CHOOSE i \in DOMAIN s : s[i] = LF /\ \A j \in 1..(i - 1) : s[j] # LF) - 1
    ELSE -1

\* bytewise s < u, as Go compares strings
RECURSIVE StrLess(_, _)
StrLess(s, u) ==
    IF u = <<>> THEN FALSE
    ELSE IF s = <<>> THEN TRUE
    ELSE IF s[1] # u[1] THEN Ord(s[1]) < Ord(u[1])
    ELSE StrLess(Tail(s), Tail(u))

IsSpaceChar(c) == c \in {SP, TAB, LF, CR, FF}

\* strings.TrimSpace
RECURSIVE TrimLeft(_)
TrimLeft(s) ==
    IF s # <<>> /\ IsSpaceChar(s[1]) THEN TrimLeft(Tail(s)) ELSE s

RECURSIVE TrimRight(_)
TrimRight(s) ==
    IF s # <<>> /\ IsSpaceChar(s[Len(s)])
    THEN TrimRight(SubSeq(s, 1, Len(s) - 1)) ELSE s

TrimSpace(s) == TrimRight(TrimLeft(s))

\* the leading run of decimal digits of s (the match of ^\d+)
RECURSIVE DigitRun(_)
DigitRun(s) ==
    IF s # <<>> /\ s[1] \in Digits THEN <<s[1]>> \o DigitRun(Tail(s)) ELSE <<>>

\* strconv.Atoi of a run of digits
RECURSIVE AtoiFrom(_, _)
AtoiFrom(s, acc) ==
    IF s = <<>> THEN acc ELSE AtoiFrom(Tail(s), acc * 10 + DigitVal(s[1]))

Atoi(s) == AtoiFrom(s, 0)

----------------------------------------------------------------------------
(* json.Unmarshal of a quoted string literal into a Go string *)

HexChars == <<"0","1","2","3","4","5","6","7","8","9","a","b","c","d","e","f">>
HexUpper == <<"0","1","2","3","4","5","6","7","8","9","A","B","C","D","E","F">>

IsHex(c) == c \in Range(HexChars) \cup Range(HexUpper)

HexVal(c) ==
    IF c \in Range(HexChars)
    THEN (CHOOSE i \in DOMAIN HexChars : HexChars[i] = c) - 1
    ELSE (CHOOSE i \in DOMAIN HexUpper : HexUpper[i] = c) - 1

JsonSpace == {SP, TAB, CR, LF}

JsonEscapes == {DQ, BSL, "/", "b", "f", "n", "r", "t"}

JsonUnescape(e) ==
    CASE e = "b" -> BS
      [] e = "f" -> FF
      [] e = "n" -> LF
      [] e = "r" -> CR
      [] e = "t" -> TAB
      [] OTHER -> e

JsonFail == [ok |-> FALSE, s |-> <<>>]

\* Reads the body of a string literal from position i (1-based) of val; acc is
\* the text decoded so far.  A code point outside ASCII decodes to NonAscii.
RECURSIVE JsonScan(_, _, _)
JsonScan(val, i, acc) ==
    IF i > Len(val) THEN JsonFail
    ELSE IF val[i] = DQ
    THEN [ok |-> \A j \in (i + 1)..Len(val) : val[j] \in JsonSpace, s |-> acc]
    ELSE IF val[i] = BSL
    THEN IF i + 1 > Len(val) THEN JsonFail
         ELSE IF val[i + 1] \in JsonEscapes
         THEN JsonScan(val, i + 2, Append(acc, JsonUnescape(val[i + 1])))
         ELSE IF val[i + 1] = "u" /\ i + 5 <= Len(val)
                 /\ \A j \in (i + 2)..(i + 5) : IsHex(val[j])
         THEN JsonScan(val, i + 6,
                  Append(acc, Chr(((HexVal(val[i + 2]) * 16 + HexVal(val[i + 3])) * 16
                                   + HexVal(val[i + 4])) * 16 + HexVal(val[i + 5]))))
         ELSE JsonFail
    ELSE IF Ord(val[i]) < 32 THEN JsonFail
    ELSE JsonScan(val, i + 1, Append(acc, val[i]))

\* json.Unmarshal([]byte(val), &s) for a val that starts with a double quote
JsonUnmarshalString(val) ==
    IF val = <<>> \/ val[1] # DQ THEN JsonFail ELSE JsonScan(val, 2, <<>>)

----------------------------------------------------------------------------
(* Tokens *)

TokenValueVoid == "Void"
TokenValueInt == "Int"
TokenValueString == "String"
TokenValueBool == "Bool"

TokenBoolean == "Boolean"
TokenString == "String"
TokenIdentifier == "Identifier"
TokenEOF == "EOF"
TokenColon == "Colon"
TokenNewLine == "NewLine"
TokenComment == "Comment"
TokenIndent == "Indent"
TokenInvalid == "Invalid"
TokenNumber == "Number"
TokenComma == "Comma"

\* _TokenValue{}: the zero value
TokenValue ==
    [vInt |-> 0, vString |-> <<>>, vBool |-> FALSE, valid |-> FALSE,
     vType |-> TokenValueVoid]

\* _Token{}: the zero value
Token == [line |-> 0, col |-> 0, kind |-> "none", value |-> TokenValue]

IsEmpty(v) == ~v.valid

isString(tk) == tk.value.vType = TokenValueString

----------------------------------------------------------------------------
(* Tokenizer *)

NoFault == "none"
ErrSpaces == "Invalid number of spaces"
PanicInt == "panic(1)"
PanicIndex == "runtime error: index out of range"
PanicSlice == "runtime error: slice bounds out of range"
PanicChop == "chop is zero"

\* _Tokenizer{}: state "run" while tokenize is in its loop, "done" once it has
\* returned nil, "error" once it has returned an error, "panic" once it has
\* panicked; fault is the error or the panic value.
Tokenizer ==
    [input |-> <<>>, lastNewLine |-> FALSE, line |-> 0, col |-> 0,
     tokens |-> <<>>, state |-> "run", fault |-> NoFault]

Panic(tz, v) == [tz EXCEPT !.state = "panic", !.fault = v]

buildToken(tz, tt, value) ==
    LET tv == IF tt = TokenComment \/ tt = TokenString
              THEN [TokenValue EXCEPT !.vString = value, !.vType = TokenValueString]
              ELSE IF tt = TokenBoolean
              THEN [TokenValue EXCEPT !.vBool = value, !.vType = TokenValueBool]
              ELSE IF tt = TokenNumber \/ tt = TokenIndent
              THEN [TokenValue EXCEPT !.vInt = value, !.vType = TokenValueInt]
              ELSE TokenValue
        tk == [line |-> tz.line, col |-> tz.col, kind |-> tt,
               value |-> [tv EXCEPT !.valid = TRUE]]
    IN  IF tt = TokenInvalid THEN Panic(tz, PanicInt)
        ELSE [tz EXCEPT !.tokens = Append(@, tk)]

Nil == "nil"

\* Each branch of the loop body gives the tokenizer after the branch and chop.
Branch(tz, chop) == [tz |-> tz, chop |-> chop]

lineTerminator(tz, input) ==
    Branch(buildToken([tz EXCEPT !.line = @ + 1, !.col = 0], TokenNewLine, Nil),
           IF Len(input) > 1 /\ input[2] = LF THEN 2 ELSE 1)

comment(tz, input) ==
    LET idx == IndexLF(SliceFrom(input, 1))
        nextNewLine == (IF idx = -1 THEN Len(input) ELSE idx) + 1
    IN  IF nextNewLine > Len(input) THEN Branch(Panic(tz, PanicSlice), 1)
        ELSE Branch(buildToken(tz, TokenComment, SubSeq(input, 2, nextNewLine)),
                    nextNewLine)

\* the loop "for i := 1; input[i] == ' '; i++": the number of leading spaces,
\* or -1 when the read of input[i] runs off the end of the input
RECURSIVE indentScan(_, _)
indentScan(input, i) ==
    IF i >= Len(input) THEN -1
    ELSE IF input[i + 1] = SP THEN indentScan(input, i + 1)
    ELSE i

space(tz, input) ==
    IF tz.lastNewLine
    THEN LET indentSize == indentScan(input, 1)
         IN  IF indentSize = -1 THEN Branch(Panic(tz, PanicIndex), 0)
             ELSE IF indentSize % 2 = 1
             THEN Branch([tz EXCEPT !.state = "error", !.fault = ErrSpaces], 0)
             ELSE Branch(buildToken(tz, TokenIndent, indentSize \div 2), indentSize)
    ELSE Branch(tz, 1)

\* the scan for the closing quote, from the 0-based index i
RECURSIVE quoteScan(_, _)
quoteScan(input, i) ==
    IF i >= Len(input) THEN i
    ELSE IF input[i + 1] = DQ /\ ~(input[i] = BSL /\ input[i - 1] # BSL)
    THEN i + 1
    ELSE quoteScan(input, i + 1)

quoted(tz, input) ==
    LET i == quoteScan(input, 1)
        val == SliceTo(input, i)
        r == JsonUnmarshalString(val)
    IN  IF ~r.ok THEN Branch(buildToken(tz, TokenInvalid, Nil), i)
        ELSE Branch(buildToken(tz, TokenString, r.s), i)

number(tz, input) ==
    LET val == DigitRun(input)
    IN  Branch(buildToken(tz, TokenNumber, Atoi(val)), Len(val))

\* the scan of a bare string, up to the first delimiter
RECURSIVE bareScan(_, _)
bareScan(input, i) ==
    IF i >= Len(input) THEN i
    ELSE IF input[i + 1] \in {":", SP, CR, LF, ","} THEN i
    ELSE bareScan(input, i + 1)

bare(tz, input) ==
    LET i == bareScan(input, 0)
    IN  Branch(buildToken(tz, TokenString, SliceTo(input, i)), i)

strPattern(input) == input[1] \in Letters \cup {"/", ".", "-"}

TrueText == <<"t", "r", "u", "e">>
FalseText == <<"f", "a", "l", "s", "e">>

loopBranch(tz, input) ==
    IF input[1] = LF \/ input[1] = CR THEN lineTerminator(tz, input)
    ELSE IF input[1] = "#" THEN comment(tz, input)
    ELSE IF input[1] = SP THEN space(tz, input)
    ELSE IF input[1] = DQ THEN quoted(tz, input)
    ELSE IF input[1] \in Digits THEN number(tz, input)
    ELSE IF HasPrefix(input, TrueText)
    THEN Branch(buildToken(tz, TokenBoolean, TRUE), 4)
    ELSE IF HasSuffix(input, FalseText)
    THEN Branch(buildToken(tz, TokenBoolean, FALSE), 5)
    ELSE IF input[1] = ":" THEN Branch(buildToken(tz, TokenColon, Nil), 1)
    ELSE IF input[1] = "," THEN Branch(buildToken(tz, TokenComma, Nil), 1)
    ELSE IF strPattern(input) THEN bare(tz, input)
    ELSE Branch(buildToken(tz, TokenInvalid, Nil), 0)

\* the end of the loop body: the advance past the chopped text
advance(b, input) ==
    IF b.tz.state # "run" THEN b.tz
    ELSE IF b.chop = 0 THEN buildToken(b.tz, TokenInvalid, Nil)
    ELSE IF input[1] = CR /\ Len(input) < 2 THEN Panic(b.tz, PanicIndex)
    ELSE [b.tz EXCEPT !.col = @ + b.chop,
                      !.lastNewLine = (input[1] = LF
                                       \/ (input[1] = CR /\ input[2] = LF)),
                      !.input = SliceFrom(input, b.chop)]

\* one iteration of the loop of tokenize, or its end once the input is used up
tokenizeStep(tz) ==
    IF Len(tz.input) > 0 THEN advance(loopBranch(tz, tz.input), tz.input)
    ELSE [buildToken(tz, TokenEOF, Nil) EXCEPT !.state = "done"]

\* tokenize(input), run to its return or panic
RECURSIVE tokenizeRun(_)
tokenizeRun(tz) ==
    IF tz.state # "run" THEN tz ELSE tokenizeRun(tokenizeStep(tz))

tokenize(input) == tokenizeRun([Tokenizer EXCEPT !.input = input])

----------------------------------------------------------------------------
(* Input texts: concatenations of a few pieces *)

MaxPieces == 3

Pieces ==
    {<<LF>>, <<CR>>, <<SP>>, <<SP, SP>>, <<"#">>, <<"a">>, <<":">>, <<",">>,
     <<DQ>>, <<BSL>>, <<"1">>, TrueText, FalseText}

RECURSIVE Concats(_, _)
Concats(pieces, n) ==
    IF n = 0 THEN {<<>>}
    ELSE LET shorter == Concats(pieces, n - 1)
         IN  shorter \cup {x \o y : x \in shorter, y \in pieces}

Texts == Concats(Pieces, MaxPieces)

----------------------------------------------------------------------------
(* The tokenizer run on its own: tokenize(data), one loop iteration a step *)

\* the values of the variables a run does not use
NilLockFile == [isNil |-> TRUE, m |-> <<>>]
NilErr == [type |-> "nil", msg |-> ""]
NoParser == [token |-> Token, tokens |-> <<>>, tokenPtr |-> 0, comments |-> <<>>,
             state |-> "idle", fault |-> NoFault]

Idle ==
    /\ p = NoParser
    /\ tree = <<>>
    /\ lf = NilLockFile
    /\ err = NilErr
    /\ out = <<>>
    /\ round = 0
    /\ keys = {}
    /\ rs = <<>>

InitTokenize ==
    /\ data \in Texts
    /\ t = [Tokenizer EXCEPT !.input = data]
    /\ pc = "tokenize"
    /\ Idle

TokenizeLoop ==
    /\ pc = "tokenize"
    /\ t.state = "run"
    /\ Len(t.input) > 0
    /\ t' = tokenizeStep(t)
    /\ UNCHANGED <<pc, data, p, tree, lf, err, out, round, keys, rs>>

TokenizeEnd ==
    /\ pc = "tokenize"
    /\ t.state = "run"
    /\ Len(t.input) = 0
    /\ t' = tokenizeStep(t)
    /\ UNCHANGED <<pc, data, p, tree, lf, err, out, round, keys, rs>>

NextTokenize == TokenizeLoop \/ TokenizeEnd

SpecTokenize == InitTokenize /\ [][NextTokenize]_vars

----------------------------------------------------------------------------
(* Claims about the tokenizer, under SpecTokenize *)

\* the number of characters of data the tokenizer has consumed
Consumed == Len(data) - Len(t.input)

ConsumedText == SubSeq(data, 1, Consumed)

\* A raw LF never lies inside a comment (a comment stops before it) and a
\* quoted string that holds one fails to decode, so while the tokenizer has
\* not failed every LF it has consumed is, or ends, a line terminator.
LFCount(s) == Cardinality({i \in DOMAIN s : s[i] = LF})

NewLineCount(tokens) ==
    Cardinality({i \in DOMAIN tokens : tokens[i].kind = TokenNewLine})

\* the number of spaces input starts with
RECURSIVE LeadingSpaces(_)
LeadingSpaces(input) ==
    IF input # <<>> /\ input[1] = SP THEN 1 + LeadingSpaces(Tail(input)) ELSE 0

\* the tokenizer stands right after a line terminator, before a run of spaces
AtIndentation ==
    /\ pc = "tokenize"
    /\ t.state = "run"
    /\ Consumed > 0
    /\ data[Consumed] = LF
    /\ Len(t.input) > 0
    /\ t.input[1] = SP

\* C5: whenever a line terminator is immediately followed by a run of k
\* spaces, tokenize returns the error "Invalid number of spaces" if k is odd
\* (wherever the run ends, the end of the input included), and emits one
\* Indent token of value k/2, consuming the run, if k is even.
C5_IndentationParity ==
    [][AtIndentation =>
        LET k == LeadingSpaces(t.input)
        IN  IF k % 2 = 1
            THEN t'.state = "error" /\ t'.fault = ErrSpaces
            ELSE /\ t'.state = "run"
                 /\ Len(t'.tokens) = Len(t.tokens) + 1
                 /\ t'.tokens[Len(t'.tokens)].kind = TokenIndent
                 /\ t'.tokens[Len(t'.tokens)].value.vInt = k \div 2
                 /\ t'.input = SliceFrom(t.input, k)]_vars

\* C9: tokenize emits exactly one NewLine token per line terminator (LF, or
\* CR LF) it has consumed, and the line counter, hence the line of every
\* token built next, is the number of those terminators: LF LF gives two
\* NewLine tokens and a CR without LF gives none.
C9_OneNewLinePerTerminator ==
    (pc = "tokenize" /\ t.state \in {"run", "done"}) =>
        /\ NewLineCount(t.tokens) = LFCount(ConsumedText)
        /\ t.line = LFCount(ConsumedText)
        /\ \A i \in DOMAIN t.tokens :
              t.tokens[i].line = NewLineCount(SubSeq(t.tokens, 1, i))

\* the text of a comment that starts at the head of input: what follows the
\* "#" up to the next LF, or up to the end of the input
CommentText(input) ==
    LET rest == Tail(input)
        idx == IndexLF(rest)
    IN  IF idx = -1 THEN rest ELSE SliceTo(rest, idx)

\* the tokenizer stands at a "#"
AtComment ==
    /\ pc = "tokenize"
    /\ t.state = "run"
    /\ Len(t.input) > 0
    /\ t.input[1] = "#"

\* C10: at every "#" the tokenizer emits one Comment token whose value is the
\* text after the "#" up to the next LF or, when none follows, up to the end
\* of the input, and goes on after that text.
C10_CommentExtent ==
    [][AtComment =>
        /\ t'.state = "run"
        /\ t'.tokens = Append(t.tokens,
              [line |-> t.line, col |-> t.col, kind |-> TokenComment,
               value |-> [TokenValue EXCEPT !.vString = CommentText(t.input),
                                            !.vType = TokenValueString,
                                            !.valid = TRUE]])
        /\ t'.input = SliceFrom(t.input, 1 + Len(CommentText(t.input)))]_vars

\* the step builds a Boolean token
BuildsBoolean ==
    /\ pc = "tokenize"
    /\ t.state = "run"
    /\ t'.state = "run"
    /\ Len(t'.tokens) = Len(t.tokens) + 1
    /\ t'.tokens[Len(t'.tokens)].kind = TokenBoolean

\* the characters the step takes from the head of the input
StepText == SliceTo(t.input, Len(t.input) - Len(t'.input))

\* C11: whenever a Boolean token is built, the characters consumed for it are
\* the text of the literal at the current position, "false" for
\* Boolean(false) and "true" for Boolean(true), and nothing else.
C11_BooleanConsumesItsLiteral ==
    [][BuildsBoolean =>
        StepText = (IF t'.tokens[Len(t'.tokens)].value.vBool
                    THEN TrueText ELSE FalseText)]_vars

----------------------------------------------------------------------------
(* Parser *)

LockfileVersion == 1

VersionPrefix ==
    <<"y","a","r","n"," ","l","o","c","k","f","i","l","e"," ","v">>

\* _versionRegex.FindStringSubmatch(comment)[1], or <<>> when there is no match
versionMatch(text) ==
    LET digits == SliceFrom(text, Len(VersionPrefix))
    IN  IF HasPrefix(text, VersionPrefix) /\ digits # <<>>
           /\ \A i \in DOMAIN digits : digits[i] \in Digits
        THEN digits ELSE <<>>

PanicNotString == "expected token value to be a string"
PanicVersion == "Can't install from a lockfile of version"
PanicNoTokens == "No more tokens"
PanicUnexpected == "Unexpected token"
PanicExpectedKey == "Expected a key"
PanicExpectedString == "Expected string"
PanicInvalidValue == "Invalid value type"
PanicUnknownToken == "Unknown token"

\* _Parser{tokens: tokens}: state "run" until a panic unwinds it; fault is
\* the panic value (the message without its line, column and file)
Parser(tokens) ==
    [token |-> Token, tokens |-> tokens, tokenPtr |-> 0, comments |-> <<>>,
     state |-> "run", fault |-> NoFault]

\* onComment with the version compared by >= instead of >
onCommentOffByOne(ps, token) ==
    IF ~isString(token) THEN Panic(ps, PanicNotString)
    ELSE LET cmt == TrimSpace(token.value.vString)
             m == versionMatch(cmt)
         IN  IF m # <<>> /\ Atoi(m) >= LockfileVersion
             THEN Panic(ps, PanicVersion)
             ELSE [ps EXCEPT !.comments = Append(@, cmt)]

onComment(ps, token) ==
    IF ~isString(token) THEN Panic(ps, PanicNotString)
    ELSE LET cmt == TrimSpace(token.value.vString)
             m == versionMatch(cmt)
         IN  IF m # <<>> /\ Atoi(m) > LockfileVersion
             THEN Panic(ps, PanicVersion)
             ELSE [ps EXCEPT !.comments = Append(@, cmt)]

\* p.next(); the token it returns is the token field of the result
RECURSIVE next(_)
next(ps) ==
    IF ps.state # "run" THEN ps
    ELSE IF ps.tokenPtr >= Len(ps.tokens) THEN Panic(ps, PanicNoTokens)
    ELSE LET tk == ps.tokens[ps.tokenPtr + 1]
             p1 == [ps EXCEPT !.tokenPtr = @ + 1]
         IN  IF tk.kind = TokenComment THEN next(onComment(p1, tk))
             ELSE [p1 EXCEPT !.token = tk]

unexpected(ps, msg) ==
    IF ps.state # "run" THEN ps
    ELSE Panic(ps, IF msg = "" THEN PanicUnexpected ELSE msg)

isValidPropValueToken(token) ==
    token.kind = TokenBoolean \/ token.kind = TokenString
        \/ token.kind = TokenNumber

\* A value of the tree parse builds: a _TokenValue, or a nested map from
\* _TokenValue keys to values.
Scalar(v) == [isMap |-> FALSE, scalar |-> v, map |-> <<>>]
Mapping(m) == [isMap |-> TRUE, scalar |-> TokenValue, map |-> m]

EmptyMap == <<>>

MapPut(m, k, v) == [x \in DOMAIN m \cup {k} |-> IF x = k THEN v ELSE m[x]]

\* for _, key := range keys { obj[key] = v }
RECURSIVE MapPutAll(_, _, _)
MapPutAll(m, ks, v) ==
    IF ks = <<>> THEN m ELSE MapPutAll(MapPut(m, Head(ks), v), Tail(ks), v)

Parsed(ps, obj) == [p |-> ps, obj |-> obj]

\* the loop "for p.token.kind == _TokenComma" that gathers further keys
RECURSIVE moreKeys(_, _)
moreKeys(ps, ks) ==
    IF ps.state # "run" \/ ps.token.kind # TokenComma THEN [p |-> ps, keys |-> ks]
    ELSE LET p1 == next(ps)
             keyToken == p1.token
         IN  IF p1.state # "run" THEN [p |-> p1, keys |-> ks]
             ELSE IF keyToken.kind # TokenString
             THEN [p |-> unexpected(p1, PanicExpectedString), keys |-> ks]
             ELSE IF IsEmpty(keyToken.value)
             THEN [p |-> Panic(p1, PanicExpectedKey), keys |-> ks]
             ELSE moreKeys(next(p1), Append(ks, keyToken.value))

\* p.parse(indent), from the state of its loop with obj built so far
RECURSIVE parseLoop(_, _, _)
parseLoop(ps, indent, obj) ==
    IF ps.state # "run" THEN Parsed(ps, obj)
    ELSE IF ps.token.kind = TokenNewLine
    THEN LET p1 == next(ps)
         IN  IF p1.state # "run" THEN Parsed(p1, obj)
             ELSE IF indent = 0 THEN parseLoop(p1, indent, obj)
             ELSE IF p1.token.kind # TokenIndent THEN Parsed(p1, obj)
             ELSE IF p1.token.value.vInt = indent
             THEN parseLoop(next(p1), indent, obj)
             ELSE Parsed(p1, obj)
    ELSE IF ps.token.kind = TokenIndent
    THEN IF ps.token.value.vInt = indent
         THEN parseLoop(next(ps), indent, obj)
         ELSE Parsed(ps, obj)
    ELSE IF ps.token.kind = TokenEOF THEN Parsed(ps, obj)
    ELSE IF ps.token.kind = TokenString
    THEN IF IsEmpty(ps.token.value) THEN Parsed(Panic(ps, PanicExpectedKey), obj)
         ELSE
         LET k == moreKeys(next(ps), <<ps.token.value>>)
             wasColon == k.p.state = "run" /\ k.p.token.kind = TokenColon
             p2 == IF wasColon THEN next(k.p) ELSE k.p
         IN  IF p2.state # "run" THEN Parsed(p2, obj)
             ELSE IF isValidPropValueToken(p2.token)
             THEN parseLoop(next(p2), indent,
                            MapPutAll(obj, k.keys, Scalar(p2.token.value)))
             ELSE IF wasColon
             THEN LET val == parseLoop(p2, indent + 1, EmptyMap)
                      obj2 == MapPutAll(obj, k.keys, Mapping(val.obj))
                  IN  IF val.p.state # "run" THEN Parsed(val.p, obj)
                      ELSE IF indent # 0 /\ val.p.token.kind # TokenIndent
                      THEN Parsed(val.p, obj2)
                      ELSE parseLoop(val.p, indent, obj2)
             ELSE Parsed(unexpected(p2, PanicInvalidValue), obj)
    ELSE Parsed(unexpected(ps, PanicUnknownToken), obj)

parse(ps, indent) == parseLoop(ps, indent, EmptyMap)

----------------------------------------------------------------------------
(* json.Marshal of the parsed tree and json.Unmarshal of it into a LockFile *)

RECURSIVE Itoa(_)
Itoa(n) ==
    IF n < 10 THEN <<DigitChars[n + 1]>>
    ELSE Itoa(n \div 10) \o <<DigitChars[(n % 10) + 1]>>

MarshalText(v) ==
    CASE v.vType = TokenValueInt -> Itoa(v.vInt)
      [] v.vType = TokenValueBool -> IF v.vBool THEN TrueText ELSE FalseText
      [] v.vType = TokenValueString -> v.vString
      [] OTHER -> <<"v", "o", "i", "d">>

ToLower(c) ==
    IF c \in Range(UpperCase)
    THEN LowerCase[CHOOSE i \in DOMAIN UpperCase : UpperCase[i] = c]
    ELSE c

EqualFold(a, b) ==
    Len(a) = Len(b) /\ \A i \in DOMAIN a : ToLower(a[i]) = ToLower(b[i])

\* the greatest element of a non-empty set of strings
MaxStr(S) == CHOOSE x \in S : \A y \in S : y = x \/ StrLess(y, x)

\* The JSON keys of a map of the tree that select the struct field or map
\* entry named tag.  encoding/json writes the keys sorted and reads them in
\* that order, a later key overwriting an earlier one: the last one decides.
fieldKeys(m, tag, fold) ==
    {k \in DOMAIN m : IF fold THEN EqualFold(MarshalText(k), tag)
                              ELSE MarshalText(k) = tag}

fieldKey(m, tag, fold) ==
    CHOOSE k \in fieldKeys(m, tag, fold) :
        MarshalText(k) = MaxStr({MarshalText(x) : x \in fieldKeys(m, tag, fold)})

TagName == <<"n","a","m","e">>
TagVersion == <<"v","e","r","s","i","o","n">>
TagUID == <<"u","i","d">>
TagResolved == <<"r","e","s","o","l","v","e","d">>
TagIntegrity == <<"i","n","t","e","g","r","i","t","y">>
TagRegistry == <<"r","e","g","i","s","t","r","y">>
TagDependencies == <<"d","e","p","e","n","d","e","n","c","i","e","s">>
TagOptionalDependencies ==
    <<"o","p","t","i","o","n","a","l","D","e","p","e","n","d","e","n","c","i","e","s">>

StringTags ==
    {TagName, TagVersion, TagUID, TagResolved, TagIntegrity, TagRegistry}
MapTags == {TagDependencies, TagOptionalDependencies}

\* a string field of an entry: the text of the scalar under its tag, or ""
stringField(m, tag) ==
    IF fieldKeys(m, tag, TRUE) = {} THEN <<>>
    ELSE MarshalText(m[fieldKey(m, tag, TRUE)].scalar)

\* a map[string]string field of an entry
mapField(m, tag) ==
    IF fieldKeys(m, tag, TRUE) = {} THEN <<>>
    ELSE LET d == m[fieldKey(m, tag, TRUE)].map
             names == {MarshalText(k) : k \in DOMAIN d}
         IN  [n \in names |-> MarshalText(d[fieldKey(d, n, FALSE)].scalar)]

\* one element of the LockFile map
Entry(m) ==
    [Name |-> stringField(m, TagName),
     Version |-> stringField(m, TagVersion),
     UID |-> stringField(m, TagUID),
     Resolved |-> stringField(m, TagResolved),
     Integrity |-> stringField(m, TagIntegrity),
     Registry |-> stringField(m, TagRegistry),
     Dependencies |-> mapField(m, TagDependencies),
     OptionalDependencies |-> mapField(m, TagOptionalDependencies)]

\* json.Unmarshal reports a type error for a JSON string where the target is
\* a struct or a map, and for a JSON object where the target is a string
entryTypeOk(node) ==
    /\ node.isMap
    /\ \A k \in DOMAIN node.map :
         /\ (\E tag \in StringTags : EqualFold(MarshalText(k), tag))
                => ~node.map[k].isMap
         /\ (\E tag \in MapTags : EqualFold(MarshalText(k), tag))
                => /\ node.map[k].isMap
                   /\ \A d \in DOMAIN node.map[k].map : ~node.map[k].map[d].isMap

unmarshalOk(obj) == \A k \in DOMAIN obj : entryTypeOk(obj[k])

\* json.Unmarshal(json.Marshal(obj), &lf)
unmarshal(obj) ==
    LET ks == {MarshalText(k) : k \in DOMAIN obj}
    IN  [k \in ks |-> Entry(obj[fieldKey(obj, k, FALSE)].map)]

----------------------------------------------------------------------------
(* Lockfile texts: a few lines, or ends of text with no line terminator *)

LineEntryA ==
    <<"a", ":", LF>>
LineEntryB ==
    <<"b", ":", LF>>
LineEntryAB ==
    <<"a", ",", SP, "b", ":", LF>>
LineVersion ==
    <<SP, SP, "v", "e", "r", "s", "i", "o", "n", SP, DQ, "1", DQ, LF>>
LineVersionNumber ==
    <<SP, SP, "v", "e", "r", "s", "i", "o", "n", SP, "1", LF>>
LineDependencies ==
    <<SP, SP, "d", "e", "p", "e", "n", "d", "e", "n", "c", "i", "e", "s", ":", LF>>
LineDependency ==
    <<SP, SP, SP, SP, "b", SP, DQ, "1", DQ, LF>>
LineOddIndent ==
    <<SP, "a", ":", LF>>
LineTopScalar ==
    <<"a", SP, "b", LF>>
LineInvalidChar ==
    <<"@", LF>>
LineColon ==
    <<":", LF>>
LineDanglingComma ==
    <<"a", ",", LF>>
LineHeaderV1 ==
    <<"#", SP, "y", "a", "r", "n", SP, "l", "o", "c", "k", "f", "i", "l", "e", SP, "v", "1", LF>>
LineHeaderV2 ==
    <<"#", SP, "y", "a", "r", "n", SP, "l", "o", "c", "k", "f", "i", "l", "e", SP, "v", "2", LF>>
LineHeaderV12 ==
    <<"#", SP, "y", "a", "r", "n", SP, "l", "o", "c", "k", "f", "i", "l", "e", SP, "v", "1", "2", LF>>
EndComment ==
    <<"#">>
EndSpaces ==
    <<SP, SP>>
EndQuote ==
    <<DQ, "a">>

MaxLines == 3

ParseLines ==
    {LineEntryA, LineEntryB, LineEntryAB, LineVersion, LineVersionNumber,
     LineDependencies, LineDependency, LineOddIndent, LineTopScalar,
     LineInvalidChar, LineColon, LineDanglingComma, LineHeaderV1, LineHeaderV2,
     LineHeaderV12, EndComment, EndSpaces, EndQuote}

LockTexts == Concats(ParseLines, MaxLines)

----------------------------------------------------------------------------
(* ParseLockFileData(data) *)

LockFile(m) == [isNil |-> FALSE, m |-> m]

\* the dynamic type of a panic value, as the type switch of the deferred
\* function sees it
PanicType(fault) ==
    CASE fault = PanicInt -> "int"
      [] fault \in {PanicIndex, PanicSlice} -> "error"
      [] OTHER -> "string"

ParseErr(msg) == [type |-> "_ParseErr", msg |-> msg]

\* recovered with the default case of its type switch left out
recoveredNoDefault(fault) ==
    CASE PanicType(fault) = "error" -> [type |-> "runtime.Error", msg |-> fault]
      [] PanicType(fault) = "string" -> ParseErr(fault)
      [] OTHER -> NilErr

\* the deferred function: recover() and the switch on the panic value
recovered(fault) ==
    CASE PanicType(fault) = "error" -> [type |-> "runtime.Error", msg |-> fault]
      [] PanicType(fault) = "string" -> ParseErr(fault)
      [] OTHER -> ParseErr("Unknown err")

InitParse ==
    /\ data \in LockTexts
    /\ pc = "ParseLockFileData"
    /\ t = Tokenizer
    /\ Idle

\* tokenizer.tokenize(string(data)) and the return of its error
Tokenize ==
    /\ pc = "ParseLockFileData"
    /\ t' = tokenize(data)
    /\ pc' = CASE t'.state = "done" -> "parse"
               [] t'.state = "error" -> "return"
               [] OTHER -> "panic"
    /\ err' = IF t'.state = "error"
              THEN [type |-> "errorString", msg |-> t'.fault] ELSE err
    /\ lf' = IF t'.state = "error" THEN NilLockFile ELSE lf
    /\ UNCHANGED <<data, p, tree, out, round, keys, rs>>

\* parser.next() and parser.parse(0)
Parse ==
    /\ pc = "parse"
    /\ LET r == parse(next(Parser(t.tokens)), 0)
       IN  /\ p' = r.p
           /\ tree' = IF r.p.state = "run" THEN r.obj ELSE tree
           /\ pc' = IF r.p.state = "run" THEN "unmarshal" ELSE "panic"
    /\ UNCHANGED <<data, t, lf, err, out, round, keys, rs>>

\* json.Marshal of the tree, json.Unmarshal into lf, and the return
Unmarshal ==
    /\ pc = "unmarshal"
    /\ IF unmarshalOk(tree)
       THEN lf' = LockFile(unmarshal(tree)) /\ err' = NilErr
       ELSE lf' = NilLockFile /\ err' = [type |-> "withStack", msg |-> "parse failed"]
    /\ pc' = "return"
    /\ UNCHANGED <<data, t, p, tree, out, round, keys, rs>>

\* a panic of the tokenizer or the parser unwinds into the deferred function
Recover ==
    /\ pc = "panic"
    /\ err' = recovered(IF t.state = "panic" THEN t.fault ELSE p.fault)
    /\ pc' = "return"
    /\ UNCHANGED <<data, t, p, tree, lf, out, round, keys, rs>>

NextParse == Tokenize \/ Parse \/ Unmarshal \/ Recover

SpecParse == InitParse /\ [][NextParse]_vars

----------------------------------------------------------------------------
(* Claims about ParseLockFileData, under SpecParse *)

\* C4: ParseLockFileData returns either a document and a nil error, or a nil
\* document and a non-nil error; an error or a panic of the tokenizer or the
\* parser ends in the second, the panic value turned into the returned error.
C4_AllOrNothing ==
    /\ pc = "return" =>
          \/ ~lf.isNil /\ err = NilErr
          \/ lf.isNil /\ err # NilErr
    /\ (pc = "return" /\ (t.state \in {"error", "panic"} \/ p.state = "panic")) =>
          /\ lf.isNil
          /\ err # NilErr
          /\ t.state = "panic" => err = recovered(t.fault)
          /\ p.state = "panic" => err = recovered(p.fault)
          /\ err.type \in {"errorString", "runtime.Error", "_ParseErr"}

\* C4 witness: a panic(1) of buildToken on an Invalid token was recovered
\* and returned as an error
C4_Witness ==
    /\ pc = "return"
    /\ t.state = "panic"
    /\ t.fault = PanicInt
    /\ lf.isNil
    /\ err = ParseErr("Unknown err")

MaxVersion == 12

\* the text starts with the header line "# yarn lockfile v<n>"
HasHeader(n) == HasPrefix(data, <<"#", SP>> \o VersionPrefix \o Itoa(n) \o <<LF>>)

\* the text after the header line of version n
Body(n) == SliceFrom(data, Len(<<"#", SP>> \o VersionPrefix \o Itoa(n) \o <<LF>>))

\* C6: a text that the tokenizer accepts and whose header line is
\* "# yarn lockfile v<N>" makes ParseLockFileData return no document and the
\* version error if N > LockfileVersion; if N <= LockfileVersion the comment
\* is appended to the comment list, first, and raises no version error (any
\* version error then comes from a further comment of the body).
C6_VersionGate ==
    \A n \in 0..MaxVersion :
        (HasHeader(n) /\ t.state = "done" /\ pc = "return") =>
            IF n > LockfileVersion
            THEN lf.isNil /\ err = ParseErr(PanicVersion)
            ELSE /\ p.comments # <<>>
                 /\ p.comments[1] = VersionPrefix \o Itoa(n)
                 /\ "#" \notin Range(Body(n)) => err # ParseErr(PanicVersion)

\* C6 witness: a version 2 header before an entry was refused
C6_Witness ==
    /\ pc = "return"
    /\ HasHeader(2)
    /\ Body(2) = LineEntryA \o LineVersion
    /\ lf.isNil
    /\ err = ParseErr(PanicVersion)

\* C8: parse(0) returns normally only with EndOfInput as its lookahead token,
\* all tokens having been read; so a text that ParseLockFileData accepts has
\* been parsed to its end, none of its lines dropped.
C8_NoSilentTruncation ==
    (pc = "return" /\ err = NilErr) =>
        /\ p.token.kind = TokenEOF
        /\ p.tokenPtr = Len(p.tokens)

----------------------------------------------------------------------------
(* LockFile.RootElement *)

\* k + "@" + v
Ref(k, v) == k \o <<"@">> \o v

\* the keys that the loop over the entries and their Dependencies deletes
\* from the local map keys, with the dependency name alone as the key deleted
referencedByName(f) ==
    {k : k \in UNION {DOMAIN f[e].Dependencies : e \in DOMAIN f}}

\* the keys that the loop over the entries and their Dependencies deletes
\* from the local map keys
referenced(f) ==
    UNION {{Ref(k, f[e].Dependencies[k]) : k \in DOMAIN f[e].Dependencies} :
           e \in DOMAIN f}

\* insertion of x into a sorted slice
RECURSIVE insertSorted(_, _)
insertSorted(x, sorted) ==
    IF sorted = <<>> THEN <<x>>
    ELSE IF StrLess(x, Head(sorted)) THEN <<x>> \o sorted
    ELSE <<Head(sorted)>> \o insertSorted(x, Tail(sorted))

\* sort.Slice(rs, func(i, j int) bool { return rs[i] < rs[j] })
RECURSIVE sortStrings(_)
sortStrings(s) ==
    IF s = <<>> THEN <<>> ELSE insertSorted(Head(s), sortStrings(Tail(s)))

\* the orders in which a range over a map of these keys may visit them
Orders(S) ==
    {s \in [1..Cardinality(S) -> S] : \A i, j \in DOMAIN s : i # j => s[i] # s[j]}

MaxEntries == 2

RootKeys == {<<"a","@","1">>, <<"a","@","2">>, <<"b","@","1">>, <<"B","@","1">>}

NoDeps == <<>>
Dep(name, range) == [n \in {name} |-> range]

EntryWith(deps, optional) ==
    [Name |-> <<>>, Version |-> <<>>, UID |-> <<>>, Resolved |-> <<>>,
     Integrity |-> <<>>, Registry |-> <<>>,
     Dependencies |-> deps, OptionalDependencies |-> optional]

RootEntries ==
    {EntryWith(d, NoDeps) :
        d \in {NoDeps, Dep(<<"a">>, <<"1">>), Dep(<<"a">>, <<"2">>),
               Dep(<<"b">>, <<"1">>), Dep(<<"B">>, <<"1">>),
               [n \in {<<"a">>, <<"b">>} |-> <<"1">>]}}
    \cup {EntryWith(NoDeps, Dep(<<"b">>, <<"1">>))}

RootFiles ==
    UNION {[ks -> RootEntries] :
           ks \in {x \in SUBSET RootKeys : Cardinality(x) <= MaxEntries}}

InitRoot ==
    /\ lf \in {LockFile(f) : f \in RootFiles}
    /\ pc = "RootElement"
    /\ data = <<>>
    /\ t = Tokenizer
    /\ p = NoParser
    /\ tree = <<>>
    /\ err = NilErr
    /\ out = <<>>
    /\ round = 0
    /\ keys = {}
    /\ rs = <<>>

\* for s := range f { keys[s] = struct{}{} }
RootKeysOfFile ==
    /\ pc = "RootElement"
    /\ keys' = DOMAIN lf.m
    /\ pc' = "delete"
    /\ UNCHANGED <<data, t, p, tree, lf, err, out, round, rs>>

\* the loop that deletes k+"@"+v for every dependency of every entry
RootDelete ==
    /\ pc = "delete"
    /\ keys' = keys \ referenced(lf.m)
    /\ pc' = "append"
    /\ UNCHANGED <<data, t, p, tree, lf, err, out, round, rs>>

\* for s := range keys { rs = append(rs, s) }, in the order the map gives
RootAppend ==
    /\ pc = "append"
    /\ rs' \in Orders(keys)
    /\ pc' = "sort"
    /\ UNCHANGED <<data, t, p, tree, lf, err, out, round, keys>>

RootSort ==
    /\ pc = "sort"
    /\ rs' = sortStrings(rs)
    /\ pc' = "return"
    /\ UNCHANGED <<data, t, p, tree, lf, err, out, round, keys>>

NextRoot == RootKeysOfFile \/ RootDelete \/ RootAppend \/ RootSort

SpecRoot == InitRoot /\ [][NextRoot]_vars

----------------------------------------------------------------------------
(* Claims about RootElement, under SpecRoot *)

\* rs is in strictly ascending byte order, hence without duplicates
StrictlyAscending(s) == \A i \in 1..(Len(s) - 1) : StrLess(s[i], s[i + 1])

\* key k is named by a dependency (name, range) of the entry e of f
Names(f, e, k) ==
    \E n \in DOMAIN f[e].Dependencies : Ref(n, f[e].Dependencies[n]) = k

\* C7 as stated: RootElement returns, strictly ascending, exactly the keys
\* that no OTHER entry names by a dependency; a key named only by its own
\* entry is returned.
C7_RootsIgnoreSelfReference ==
    pc = "return" =>
        /\ StrictlyAscending(rs)
        /\ Range(rs) = {k \in DOMAIN lf.m :
                          ~\E e \in DOMAIN lf.m \ {k} : Names(lf.m, e, k)}

\* C7 amended: RootElement returns, strictly ascending, exactly the keys
\* that no entry names by a dependency, the key's own entry included: a key
\* named only by its own entry is not returned.
C7_Roots ==
    pc = "return" =>
        /\ StrictlyAscending(rs)
        /\ Range(rs) = {k \in DOMAIN lf.m :
                          ~\E e \in DOMAIN lf.m : Names(lf.m, e, k)}

\* C7 witness: of two entries, one that names itself and one that nothing
\* names, RootElement returned the second alone
C7_Witness ==
    /\ pc = "return"
    /\ DOMAIN lf.m = {<<"a","@","1">>, <<"B","@","1">>}
    /\ lf.m[<<"a","@","1">>].Dependencies = Dep(<<"a">>, <<"1">>)
    /\ lf.m[<<"B","@","1">>].Dependencies = NoDeps
    /\ rs = <<<<"B","@","1">>>>

----------------------------------------------------------------------------
(* The scalar formatter maybeWrap, from section 4.3 of the specification and *)
(* the cases of TestWrapping                                                  *)

Delimiters == {":", SP, CR, LF, ","}

\* standard escaping of one character inside a double-quoted string
escapeChar(c) ==
    CASE c = DQ -> <<BSL, DQ>>
      [] c = BSL -> <<BSL, BSL>>
      [] c = LF -> <<BSL, "n">>
      [] c = CR -> <<BSL, "r">>
      [] c = TAB -> <<BSL, "t">>
      [] c = BS -> <<BSL, "b">>
      [] c = FF -> <<BSL, "f">>
      [] OTHER -> <<c>>

RECURSIVE escape(_)
escape(s) == IF s = <<>> THEN <<>> ELSE escapeChar(Head(s)) \o escape(Tail(s))

quote(s) == <<DQ>> \o escape(s) \o <<DQ>>

\* maybeWrap that lets the literals true and false through unquoted
maybeWrapNoLiterals(s) ==
    IF \/ s = <<>>
       \/ ~strPattern(s)
       \/ \E i \in DOMAIN s : s[i] \in Delimiters
       \/ \A i \in DOMAIN s : s[i] \in Digits
    THEN quote(s)
    ELSE s

maybeWrap(s) ==
    IF \/ s = <<>>
       \/ ~strPattern(s)
       \/ \E i \in DOMAIN s : s[i] \in Delimiters
       \/ s = TrueText
       \/ s = FalseText
       \/ \A i \in DOMAIN s : s[i] \in Digits
    THEN quote(s)
    ELSE s

TestWrapping ==
    {[input |->
        <<"1", ".", "2", ".", "3">>,
      expected |->
        <<DQ, "1", ".", "2", ".", "3", DQ>>],
     [input |->
        <<"^", "1", ".", "2", ".", "3">>,
      expected |->
        <<DQ, "^", "1", ".", "2", ".", "3", DQ>>],
     [input |->
        <<"@", "f", "o", "o", "/", "b", "a", "r">>,
      expected |->
        <<DQ, "@", "f", "o", "o", "/", "b", "a", "r", DQ>>],
     [input |->
        <<"t", "r", "u", "e">>,
      expected |->
        <<DQ, "t", "r", "u", "e", DQ>>],
     [input |->
        <<"f", "a", "l", "s", "e">>,
      expected |->
        <<DQ, "f", "a", "l", "s", "e", DQ>>],
     [input |->
        <<"h", "t", "t", "p", "s", ":", "/", "/", "f", "o", "o", ".", "o",
          "r", "g">>,
      expected |->
        <<DQ, "h", "t", "t", "p", "s", ":", "/", "/", "f", "o", "o", ".",
          "o", "r", "g", DQ>>],
     [input |->
        <<"f", "o", "o">>,
      expected |->
        <<"f", "o", "o">>],
     [input |->
        <<"s", "h", "a", "5", "1", "2", "-", "J", "I", "B", "2", "+", "X",
          "J", "r", "b", "7", "v", "3", "z", "c", "e", "V", "2", "X", "z",
          "D", "h", "G", "I", "B", "9", "0", "2", "C", "m", "K", "G", "S",
          "p", "S", "l", "4", "q", "2", "C", "6", "a", "g", "U", "9", "S",
          "N", "L", "G", "/", "2", "V", "1", "R", "t", "F", "R", "G", "P",
          "G", "1", "A", "j", "h", "9", "S", "T", "j", "3", "+", "q", "6",
          "z", "J", "M", "O", "C", "+", "N", "/", "p", "p", "2", "P", "9",
          "D", "A", "=", "=">>,
      expected |->
        <<"s", "h", "a", "5", "1", "2", "-", "J", "I", "B", "2", "+", "X",
          "J", "r", "b", "7", "v", "3", "z", "c", "e", "V", "2", "X", "z",
          "D", "h", "G", "I", "B", "9", "0", "2", "C", "m", "K", "G", "S",
          "p", "S", "l", "4", "q", "2", "C", "6", "a", "g", "U", "9", "S",
          "N", "L", "G", "/", "2", "V", "1", "R", "t", "F", "R", "G", "P",
          "G", "1", "A", "j", "h", "9", "S", "T", "j", "3", "+", "q", "6",
          "z", "J", "M", "O", "C", "+", "N", "/", "p", "p", "2", "P", "9",
          "D", "A", "=", "=">>],
     [input |->
        <<">", "=", "2", ".", "2", ".", "7", SP, "<", "3">>,
      expected |->
        <<DQ, ">", "=", "2", ".", "2", ".", "7", SP, "<", "3", DQ>>]}

\* the strings handed to maybeWrap
ScalarPieces ==
    {<<"a">>, <<"-">>, <<"1">>, <<"@">>, <<":">>, <<SP>>, <<LF>>, <<DQ>>, <<BSL>>,
     TrueText, FalseText}

Scalars == Concats(ScalarPieces, MaxPieces) \cup {c.input : c \in TestWrapping}

InitFormat ==
    /\ data \in Scalars
    /\ pc = "maybeWrap"
    /\ t = Tokenizer
    /\ Idle

\* out = maybeWrap(data), and out handed to a tokenizer
Wrap ==
    /\ pc = "maybeWrap"
    /\ out' = maybeWrap(data)
    /\ t' = [Tokenizer EXCEPT !.input = out']
    /\ pc' = "tokenize"
    /\ UNCHANGED <<data, p, tree, lf, err, round, keys, rs>>

NextFormat == Wrap \/ TokenizeLoop \/ TokenizeEnd

SpecFormat == InitFormat /\ [][NextFormat]_vars

----------------------------------------------------------------------------
(* Claims about maybeWrap, under SpecFormat *)

\* C2: the text maybeWrap(s) tokenizes to exactly one String token of value
\* s and the EndOfInput token, for every s.
C2_FormatTokenizeLockstep ==
    (pc = "tokenize" /\ t.state # "run") =>
        /\ t.state = "done"
        /\ Len(t.tokens) = 2
        /\ t.tokens[1].kind = TokenString
        /\ t.tokens[1].value.vString = data
        /\ t.tokens[2].kind = TokenEOF

\* s may stay bare
Bare(s) ==
    /\ s # <<>>
    /\ s[1] \in Letters \cup {"/", ".", "-"}
    /\ \A i \in DOMAIN s : s[i] \notin {":", SP, CR, LF, ","}
    /\ s # TrueText
    /\ s # FalseText
    /\ \E i \in DOMAIN s : s[i] \notin Digits

\* C3: maybeWrap(s) is s itself exactly when s starts with a letter, "/",
\* "." or "-", holds no ":", space, CR, LF or ",", is neither true nor false
\* and is not all digits; otherwise it is a double-quoted string, other than
\* s, that decodes to s; and it gives what TestWrapping expects.
C3_QuotingRule ==
    pc # "maybeWrap" =>
        /\ out = data <=> Bare(data)
        /\ ~Bare(data) =>
              /\ Len(out) >= 2
              /\ out[1] = DQ
              /\ out[Len(out)] = DQ
              /\ JsonUnmarshalString(out) = [ok |-> TRUE, s |-> data]
        /\ \A c \in TestWrapping : data = c.input => out = c.expected

\* C3 witness: the range ">=2.2.7 <3" of TestWrapping was quoted
C3_Witness ==
    /\ pc = "tokenize"
    /\ data = <<">", "=", "2", ".", "2", ".", "7", SP, "<", "3">>
    /\ out = <<DQ, ">", "=", "2", ".", "2", ".", "7", SP, "<", "3", DQ>>

----------------------------------------------------------------------------
(* LockFile.Encode, from section 4.4 of the specification and TestEncodeMap *)

\* the strings of a set, ascending
RECURSIVE sortedSeq(_)
sortedSeq(S) ==
    IF S = {} THEN <<>>
    ELSE LET least == CHOOSE x \in S : \A y \in S : x = y \/ StrLess(x, y)
         IN  <<least>> \o sortedSeq(S \ {least})

Indent2 == <<SP, SP>>

\* encodeMap that writes the elements at the indentation of the name
encodeMapSameIndent(m, name, indent) ==
    <<indent \o name \o <<":">>>>
    \o sortedSeq({indent \o maybeWrap(k) \o <<SP>> \o maybeWrap(m[k]) :
                  k \in DOMAIN m})

\* encodeMap(m, name, indent): the line "name:" and, sorted, one line
\* "key value" for each element of m, key and value through maybeWrap
encodeMap(m, name, indent) ==
    <<indent \o name \o <<":">>>>
    \o sortedSeq({indent \o Indent2 \o maybeWrap(k) \o <<SP>> \o maybeWrap(m[k]) :
                  k \in DOMAIN m})

scalarLine(tag, value) ==
    IF value = <<>> THEN <<>>
    ELSE <<Indent2 \o tag \o <<SP>> \o maybeWrap(value)>>

mapLines(tag, m) ==
    IF DOMAIN m = {} THEN <<>> ELSE encodeMap(m, tag, Indent2)

\* the lines of the body of an entry: its non-empty fields, in their order
entryLines(e) ==
    scalarLine(TagName, e.Name) \o scalarLine(TagVersion, e.Version)
    \o scalarLine(TagUID, e.UID) \o scalarLine(TagResolved, e.Resolved)
    \o scalarLine(TagIntegrity, e.Integrity) \o scalarLine(TagRegistry, e.Registry)
    \o mapLines(TagDependencies, e.Dependencies)
    \o mapLines(TagOptionalDependencies, e.OptionalDependencies)

RECURSIVE joinKeys(_)
joinKeys(ks) ==
    IF ks = <<>> THEN <<>>
    ELSE IF Len(ks) = 1 THEN maybeWrap(ks[1])
    ELSE maybeWrap(ks[1]) \o <<",", SP>> \o joinKeys(Tail(ks))

\* the key line of the group of the entries of f equal to f[k]
groupHead(f, k) ==
    joinKeys(sortedSeq({x \in DOMAIN f : f[x] = f[k]})) \o <<":">>

\* the entry a key line stands for
groupEntry(f, head) == f[CHOOSE k \in DOMAIN f : groupHead(f, k) = head]

RECURSIVE joinLines(_)
joinLines(lines) ==
    IF lines = <<>> THEN <<>> ELSE Head(lines) \o <<LF>> \o joinLines(Tail(lines))

RECURSIVE encodeGroups(_, _)
encodeGroups(f, heads) ==
    IF heads = <<>> THEN <<>>
    ELSE joinLines(<<Head(heads)>> \o entryLines(groupEntry(f, Head(heads))))
         \o encodeGroups(f, Tail(heads))

\* the text f.Encode(w) writes
encode(f) == encodeGroups(f, sortedSeq({groupHead(f, k) : k \in DOMAIN f}))

----------------------------------------------------------------------------
(* Parse, encode, and parse what was encoded *)

\* a version that is not the literal true but starts with it
LineVersionTruex ==
    <<SP, SP, "v", "e", "r", "s", "i", "o", "n", SP, DQ, "t", "r", "u", "e", "x",
      DQ, LF>>

RoundTripLines ==
    {LineEntryA, LineEntryB, LineEntryAB, LineVersion, LineVersionTruex,
     LineDependencies, LineDependency}

MaxRoundTripLines == 4

RoundTripTexts == Concats(RoundTripLines, MaxRoundTripLines)

\* Texts of one or two entries with different keys, each a key line and the
\* lines of its fields, indented by two spaces a level.
EntryBodies == {LineVersion, LineDependencies \o LineDependency}

EntryTexts(keyLine) == {keyLine \o b : b \in EntryBodies}

WellFormedTexts ==
    EntryTexts(LineEntryA) \cup EntryTexts(LineEntryB) \cup EntryTexts(LineEntryAB)
    \cup {x \o y : x \in EntryTexts(LineEntryA), y \in EntryTexts(LineEntryB)}
    \cup {y \o x : x \in EntryTexts(LineEntryA), y \in EntryTexts(LineEntryB)}

MaxRounds == 2

InitRoundTrip ==
    /\ data \in RoundTripTexts
    /\ pc = "ParseLockFileData"
    /\ t = Tokenizer
    /\ Idle

\* r.Encode(&b) on the document ParseLockFileData returned
Encode ==
    /\ pc = "return"
    /\ err = NilErr
    /\ out' = encode(lf.m)
    /\ pc' = "encoded"
    /\ round' = round + 1
    /\ UNCHANGED <<data, t, p, tree, lf, err, keys, rs>>

\* the encoded text handed to ParseLockFileData in turn
Reparse ==
    /\ pc = "encoded"
    /\ round < MaxRounds
    /\ data' = out
    /\ pc' = "ParseLockFileData"
    /\ t' = Tokenizer
    /\ p' = NoParser
    /\ tree' = <<>>
    /\ lf' = NilLockFile
    /\ out' = <<>>
    /\ UNCHANGED <<err, round, keys, rs>>

NextRoundTrip == Tokenize \/ Parse \/ Unmarshal \/ Recover \/ Encode \/ Reparse

SpecRoundTrip == InitRoundTrip /\ [][NextRoundTrip]_vars

----------------------------------------------------------------------------
(* Claims about the round trip, under SpecRoundTrip *)

============================================================================
